---------------------------- MODULE Spec2Model ----------------------------
(***************************************************************************)
(* Real-time like / view counters of the photo gallery.                    *)
(*                                                                         *)
(* Server: backend/src/hooks/socket-io/index.ts (the Socket.IO hook with   *)
(* the 'join-photo', 'photo:like' and 'photo:view' handlers).              *)
(* Client: the useRealTimeGallery composable and Gallery.vue.              *)
(*                                                                         *)
(* Every `await` of a handler is a scheduling point: the store operation   *)
(* it waits for takes effect in one step and the code after it runs in a   *)
(* later step, so that other handlers may run in between.                  *)
(***************************************************************************)
EXTENDS Integers, Sequences, FiniteSets, Bags, TLC

Clients == {"c1", "c2"}

\* documentIds of the photos that exist in the store
Photos == {"p1", "p2"}

\* a documentId with no photo behind it (deleted after it was fetched)
Missing == "px"

PhotoIds == Photos \cup {Missing}

\* the number of 'photo:like' / 'photo:view' events the server receives
MaxEvents == 2

\* a missing (undefined / null) counter of a fetched photo
Null == -1

NoError == "null"

VARIABLES
    store,          \* api::photo.photo: photo -> [likeCount, viewCount]
    store0,         \* the store as it was when the server started
    handlers,       \* the bag of handler invocations that have not returned yet
    received,       \* the number of 'photo:like' / 'photo:view' events received
    emitted,        \* photo -> kind -> the counts broadcast for it, in order
    wire,           \* socket -> the packets the latest step emitted to it
    rooms,          \* Socket.IO rooms: photoId -> sockets in room photo:<photoId>
    joinSent,       \* socket -> photoIds it has sent 'join-photo' for
    online,         \* the sockets connected to the server
    inbox,          \* socket -> messages emitted to it and not yet handled
    socks,          \* client -> the sockets connect() created, each with its status
    cur,            \* client -> index of socket.value in socks (0: null)
    connected,      \* client -> state.connected
    error,          \* client -> state.error
    photoStats,     \* client -> photoStats.value
    recentActivity, \* client -> recentActivity.value
    clock,          \* client -> the number of activities recorded so far
    lastCall,       \* client -> what its last joinPhoto / likePhoto / viewPhoto saw and did
    gallery,        \* client -> state of its Gallery component
    audience,       \* photo -> the clients connected ever since its last like broadcast
    photos,         \* client -> photos of its gallery store
    loading,        \* client -> loading of its gallery store
    storeError,     \* client -> error of its gallery store
    selectedPhoto,  \* client -> selectedPhoto of its gallery store
    selectedIndex,  \* client -> selectedIndex of its gallery store
    isLightboxOpen, \* client -> isLightboxOpen of its gallery store
    activeFilters,  \* client -> activeFilters of its gallery store
    fetching,       \* client -> the loadPhotos calls whose fetch has not settled
    imageLoaded,    \* photo -> imageLoaded of the photo's card
    imageError,     \* photo -> imageError of the photo's card
    cardEmits,      \* photo -> the events the photo's card has emitted, by name
    likeRecords     \* api::like.like: photo -> the number of like records referencing it

serverVars == <<store, store0, handlers, received, emitted, wire, rooms,
                joinSent, online>>
clientVars == <<socks, cur, connected, error, photoStats, recentActivity, clock,
                lastCall>>
storeVars == <<photos, loading, storeError, selectedPhoto, selectedIndex,
               isLightboxOpen, activeFilters, fetching>>
cardVars == <<imageLoaded, imageError, cardEmits>>
recordVars == <<likeRecords>>
vars == <<serverVars, inbox, clientVars, gallery, audience, storeVars, cardVars,
          recordVars>>

-----------------------------------------------------------------------------
(* Server: the Socket.IO hook *)

Kinds == {"like", "view"}

\* `x || 0` of a counter
OrZero(v) == IF v = Null THEN 0 ELSE v

Field(kind) == IF kind = "like" THEN "likeCount" ELSE "viewCount"

UpdateEvent(kind) == IF kind = "like" THEN "photo:like-update" ELSE "photo:view-update"

\* the value the handler asks the store to write: (photo.likeCount || 0) + 1
NewCount(read) == OrZero(read) + 1

\* for comparison: a broadcast to every connected socket, io.emit
RoomMembers_Everyone(photoId) == online

\* io.to(`photo:${photoId}`): the sockets the broadcast goes to
RoomMembers(photoId) == rooms[photoId]

\* for comparison: catch blocks that only log
CatchNotifies_Never(kind) == FALSE

\* whether the catch block of the handler emits 'error' to the socket
CatchNotifies(kind) == kind = "like"

\* whether the handler emits 'error' when findOne finds no photo
NotFoundNotifies(kind) == kind = "like"

\* a handler invocation: its socket (alive until it disconnects), its event,
\* the await it is at and the count it holds
NewHandler(c, kind, photoId) ==
    [sock |-> c, alive |-> TRUE, kind |-> kind, photoId |-> photoId,
     pc |-> "findOne", val |-> 0]

NoPackets == [c \in Clients |-> <<>>]

\* a step that emits nothing
Quiet == wire' = NoPackets

\* io.on('connection')
ServerConnect(c) ==
    /\ online' = online \cup {c}
    /\ Quiet
    /\ UNCHANGED <<store, store0, handlers, received, emitted, rooms, joinSent>>

\* socket.on('join-photo'): socket.join(`photo:${photoId}`)
ServerJoin(c, photoId) ==
    /\ rooms' = [rooms EXCEPT ![photoId] = @ \cup {c}]
    /\ joinSent' = [joinSent EXCEPT ![c] = @ \cup {photoId}]
    /\ Quiet
    /\ UNCHANGED <<store, store0, handlers, received, emitted, online>>

Running == BagToSet(handlers)

Without(h) == handlers (-) SetToBag({h})

\* socket.on('photo:like') / socket.on('photo:view') up to the first await:
\* findOne is called
ServerReceive(c, kind, photoId) ==
    /\ received < MaxEvents
    /\ received' = received + 1
    /\ handlers' = handlers (+) SetToBag({NewHandler(c, kind, photoId)})
    /\ Quiet
    /\ UNCHANGED <<store, store0, emitted, rooms, joinSent, online>>

ErrorMsg(text) ==
    [type |-> "error", photoId |-> Missing, count |-> 0, socketId |-> "none",
     message |-> text]

\* the payload of 'photo:like-update' carries socketId, that of
\* 'photo:view-update' does not
UpdateMsg(h) ==
    [type |-> UpdateEvent(h.kind), photoId |-> h.photoId, count |-> h.val,
     socketId |-> IF h.kind = "like" THEN h.sock ELSE "none", message |-> NoError]

\* socket.emit(event, ...) of a handler: the packet goes out unless the
\* socket has disconnected meanwhile
ToSocket(h, msg) ==
    [c \in Clients |-> IF c = h.sock /\ h.alive THEN <<msg>> ELSE <<>>]

\* io.to(room).emit(event, ...)
ToRoom(photoId, msg) ==
    [c \in Clients |-> IF c \in RoomMembers(photoId) THEN <<msg>> ELSE <<>>]

\* the catch block: console.error, and for a like socket.emit('error', ...)
Catch(h) ==
    /\ handlers' = Without(h)
    /\ wire' = IF CatchNotifies(h.kind)
               THEN ToSocket(h, ErrorMsg("Failed to process like"))
               ELSE NoPackets
    /\ UNCHANGED <<store, store0, received, emitted, rooms, joinSent, online>>

\* findOne resolves; the handler returns when there is no photo, else it calls update
FindOne(h) ==
    /\ h.pc = "findOne"
    /\ IF h.photoId \in Photos
       THEN /\ handlers' = Without(h) (+)
                    SetToBag({[h EXCEPT !.pc = "update",
                                        !.val = NewCount(store[h.photoId][Field(h.kind)])]})
            /\ wire' = NoPackets
       ELSE /\ handlers' = Without(h)
            /\ wire' = IF NotFoundNotifies(h.kind)
                       THEN ToSocket(h, ErrorMsg("Photo not found"))
                       ELSE NoPackets
    /\ UNCHANGED <<store, store0, received, emitted, rooms, joinSent, online>>

\* findOne rejects
FindOneFails(h) ==
    /\ h.pc = "findOne"
    /\ Catch(h)

\* entityService.update takes effect in the store; it will resolve with the
\* photo as written
Update(h) ==
    /\ h.pc = "update"
    /\ store' = [store EXCEPT ![h.photoId][Field(h.kind)] = h.val]
    /\ handlers' = Without(h) (+) SetToBag({[h EXCEPT !.pc = "emit"]})
    /\ wire' = NoPackets
    /\ UNCHANGED <<store0, received, emitted, rooms, joinSent, online>>

\* entityService.update rejects; nothing was written
UpdateFails(h) ==
    /\ h.pc = "update"
    /\ Catch(h)

\* update has resolved: io.to(room).emit('photo:like-update' / 'photo:view-update')
Emit(h) ==
    /\ h.pc = "emit"
    /\ wire' = ToRoom(h.photoId, UpdateMsg(h))
    /\ handlers' = Without(h)
    /\ emitted' = [emitted EXCEPT ![h.photoId][h.kind] = Append(@, h.val)]
    /\ UNCHANGED <<store, store0, received, rooms, joinSent, online>>

\* the handlers of socket c hold a socket that no longer delivers
Orphaned(c) ==
    LET gone(h) == IF h.sock = c THEN [h EXCEPT !.alive = FALSE] ELSE h
        copies(h) == IF h \in DOMAIN handlers THEN handlers[h] ELSE 0
    IN  [g \in {gone(h) : h \in DOMAIN handlers} |->
            IF g.sock = c
            THEN copies([g EXCEPT !.alive = TRUE]) + copies(g)
            ELSE copies(g)]

\* the server side of a closed connection: the socket leaves its rooms
ServerDisconnect(c) ==
    /\ online' = online \ {c}
    /\ rooms' = [q \in PhotoIds |-> rooms[q] \ {c}]
    /\ joinSent' = [joinSent EXCEPT ![c] = {}]
    /\ handlers' = Orphaned(c)
    /\ Quiet
    /\ UNCHANGED <<store, store0, received, emitted>>

\* the server does nothing in this step
ServerIdle ==
    /\ Quiet
    /\ UNCHANGED <<store, store0, handlers, received, emitted, rooms, joinSent, online>>

-----------------------------------------------------------------------------
(* Client: the useRealTimeGallery composable *)

\* the sockets one composable may create
MaxSockets == 2

\* "Keep only last 50 activities"
MaxActivities == 50

\* error.message of a 'connect_error'
ConnectErrors == {"timeout"}

NoCall == [fn |-> "none", photoId |-> Missing, hadSocket |-> FALSE,
           wasConnected |-> FALSE, sent |-> FALSE]

\* the socket behind socket.value has an established connection
Established(c) == cur[c] # 0 /\ socks[c][cur[c]] = "connected"

\* some socket the composable created has an established connection
Receiving(c) == \E k \in DOMAIN socks[c] : socks[c][k] = "connected"

\* connect(): io(url, {autoConnect: false, ...}), the listeners, socket.connect()
Connect(c) ==
    /\ Len(socks[c]) < MaxSockets
    /\ socks' = [socks EXCEPT ![c] = Append(@, "connecting")]
    /\ cur' = [cur EXCEPT ![c] = Len(socks[c]) + 1]
    /\ UNCHANGED <<connected, error, photoStats, recentActivity, clock, lastCall>>

\* socket.on('connect') of the k-th socket
OnConnect(c, k) ==
    /\ k \in DOMAIN socks[c]
    /\ socks[c][k] \in {"connecting", "disconnected"}
    /\ socks' = [socks EXCEPT ![c][k] = "connected"]
    /\ connected' = [connected EXCEPT ![c] = TRUE]
    /\ error' = [error EXCEPT ![c] = NoError]
    /\ UNCHANGED <<cur, photoStats, recentActivity, clock, lastCall>>

\* socket.on('disconnect') of the k-th socket, the connection being lost
OnDisconnect(c, k) ==
    /\ k \in DOMAIN socks[c]
    /\ socks[c][k] = "connected"
    /\ socks' = [socks EXCEPT ![c][k] = "disconnected"]
    /\ connected' = [connected EXCEPT ![c] = FALSE]
    /\ UNCHANGED <<cur, error, photoStats, recentActivity, clock, lastCall>>

\* socket.on('connect_error') of the k-th socket: a connection attempt failed
OnConnectError(c, k, msg) ==
    /\ k \in DOMAIN socks[c]
    /\ socks[c][k] \in {"connecting", "disconnected"}
    /\ error' = [error EXCEPT ![c] = msg]
    /\ UNCHANGED <<socks, cur, connected, photoStats, recentActivity, clock, lastCall>>

\* disconnect(): socket.value.disconnect() (which runs the 'disconnect'
\* listener when the socket was connected), then socket.value = null
Disconnect(c) ==
    /\ IF cur[c] # 0
       THEN /\ socks' = [socks EXCEPT ![c][cur[c]] = "closed"]
            /\ connected' = [connected EXCEPT ![c] =
                                IF socks[c][cur[c]] = "connected" THEN FALSE ELSE @]
            /\ cur' = [cur EXCEPT ![c] = 0]
       ELSE UNCHANGED <<socks, cur, connected>>
    /\ UNCHANGED <<error, photoStats, recentActivity, clock, lastCall>>

\* for comparison: a guard on socket.value alone
CanEmit_SocketOnly(c) == cur[c] # 0

\* the guard of joinPhoto, likePhoto and viewPhoto: socket.value && state.connected
CanEmit(c) == cur[c] # 0 /\ connected[c]

\* what one call of joinPhoto / likePhoto / viewPhoto saw and did: sent says
\* whether it called socket.emit
DoCall(c, fn, photoId) ==
    [fn |-> fn, photoId |-> photoId, hadSocket |-> cur[c] # 0,
     wasConnected |-> connected[c], sent |-> CanEmit(c)]

JoinPhoto(c, photoId) ==
    /\ lastCall' = [lastCall EXCEPT ![c] = DoCall(c, "joinPhoto", photoId)]
    /\ UNCHANGED <<socks, cur, connected, error, photoStats, recentActivity, clock>>

LikePhoto(c, photoId) ==
    /\ lastCall' = [lastCall EXCEPT ![c] = DoCall(c, "likePhoto", photoId)]
    /\ UNCHANGED <<socks, cur, connected, error, photoStats, recentActivity, clock>>

ViewPhoto(c, photoId) ==
    /\ lastCall' = [lastCall EXCEPT ![c] = DoCall(c, "viewPhoto", photoId)]
    /\ UNCHANGED <<socks, cur, connected, error, photoStats, recentActivity, clock>>

\* initializePhotoStats(photos): photoList maps each documentId of the list to
\* the likeCount and viewCount of its photo
InitializePhotoStats(c, photoList) ==
    /\ photoStats' = [photoStats EXCEPT ![c] =
            [p \in DOMAIN photoStats[c] \cup DOMAIN photoList |->
                IF p \in DOMAIN photoList
                THEN [likes |-> OrZero(photoList[p].likeCount),
                      views |-> OrZero(photoList[p].viewCount)]
                ELSE photoStats[c][p]]]
    /\ UNCHANGED <<socks, cur, connected, error, recentActivity, clock, lastCall>>

Activity(type, photoId, count, now) ==
    [type |-> type, photoId |-> photoId, count |-> count, timestamp |-> now]

\* for comparison: a slice that drops the entry just added
AddActivity_KeepOldest(feed, type, photoId, count, now) ==
    LET f == <<Activity(type, photoId, count, now)>> \o feed
    IN  IF Len(f) > MaxActivities THEN SubSeq(f, 2, MaxActivities + 1) ELSE f

\* addActivity: recentActivity.unshift(...), then the slice that keeps 50
AddActivity(feed, type, photoId, count, now) ==
    LET f == <<Activity(type, photoId, count, now)>> \o feed
    IN  IF Len(f) > MaxActivities THEN SubSeq(f, 1, MaxActivities) ELSE f

\* for comparison: a listener that creates the entry it does not find
SetStat_Create(stats, photoId, field, count) ==
    [p \in DOMAIN stats \cup {photoId} |->
        IF p = photoId
        THEN IF p \in DOMAIN stats THEN [stats[p] EXCEPT ![field] = count]
             ELSE [[likes |-> 0, views |-> 0] EXCEPT ![field] = count]
        ELSE stats[p]]

\* photoStats.value after a 'photo:like-update' / 'photo:view-update'
SetStat(stats, photoId, field, count) ==
    IF photoId \in DOMAIN stats
    THEN [stats EXCEPT ![photoId][field] = count]
    ELSE stats

\* addActivity(type, data) at the client's next instant
Record(c, type, photoId, count) ==
    /\ recentActivity' = [recentActivity EXCEPT ![c] =
                              AddActivity(@, type, photoId, count, clock[c] + 1)]
    /\ clock' = [clock EXCEPT ![c] = @ + 1]

\* socket.on('photo:like-update')
OnLikeUpdate(c, photoId, count) ==
    /\ photoStats' = [photoStats EXCEPT ![c] = SetStat(@, photoId, "likes", count)]
    /\ Record(c, "like", photoId, count)
    /\ UNCHANGED <<socks, cur, connected, error, lastCall>>

\* socket.on('photo:view-update')
OnViewUpdate(c, photoId, count) ==
    /\ photoStats' = [photoStats EXCEPT ![c] = SetStat(@, photoId, "views", count)]
    /\ UNCHANGED <<socks, cur, connected, error, recentActivity, clock, lastCall>>

\* socket.on('gallery:new-photo')
OnNewPhoto(c, photoId) ==
    /\ Record(c, "new-photo", photoId, 0)
    /\ UNCHANGED <<socks, cur, connected, error, photoStats, lastCall>>

\* socket.on('photo:updated')
OnPhotoUpdated(c, photoId) ==
    /\ Record(c, "photo-update", photoId, 0)
    /\ UNCHANGED <<socks, cur, connected, error, photoStats, lastCall>>

\* socket.on('photo:deleted')
OnPhotoDeleted(c, photoId) ==
    /\ Record(c, "photo-delete", photoId, 0)
    /\ UNCHANGED <<socks, cur, connected, error, photoStats, lastCall>>

\* Gallery.vue: getRealTimeLikeCount / getRealTimeViewCount
getRealTimeLikeCount(c, photoId) ==
    IF photoId \in DOMAIN photoStats[c] THEN photoStats[c][photoId].likes ELSE 0

getRealTimeViewCount(c, photoId) ==
    IF photoId \in DOMAIN photoStats[c] THEN photoStats[c][photoId].views ELSE 0

\* Gallery.vue: the text of the connection indicator
StatusText(c) == IF connected[c] THEN "Live" ELSE "Offline"

-----------------------------------------------------------------------------
(* Client: the gallery store (stores/gallery.ts) and the strapi service *)

\* the loadPhotos calls that may be waiting for their fetch at one time
MaxLoads == 2

Categories == {"landscape", "portrait"}

Tags == {"sunset"}

\* a Photo as transformStrapiPhoto returns it, with the fields the store and
\* the gallery read
Photo(id, category, featured, tags, likes, views) ==
    [documentId |-> id, category |-> category, featured |-> featured, tags |-> tags,
     likeCount |-> OrZero(likes), viewCount |-> OrZero(views)]

\* the photos of the tests: 'Mountain View' and 'City Portrait'
MountainView == Photo("p1", "landscape", TRUE, {"sunset"}, 5, 100)

CityPortrait == Photo("p2", "portrait", FALSE, {}, 2, 50)

\* the second photo once it has been filed under landscape
CityLandscape == Photo("p2", "landscape", FALSE, {}, Null, Null)

\* selectedPhoto: null
NoPhoto == Photo(Missing, "", FALSE, {}, 0, 0)

\* what a successful getPhotos may resolve with
Responses ==
    {<<>>, <<MountainView>>, <<MountainView, CityPortrait>>,
     <<CityPortrait, MountainView>>, <<MountainView, CityLandscape>>}

\* what getPhotos throws: the error of fetch, or the Error it makes of a
\* response that is not ok
Failures ==
    {[isError |-> TRUE, message |-> "Network error"],
     [isError |-> TRUE, message |-> "HTTP error! status: 500"]}

\* err instanceof Error ? err.message : 'Failed to load photos'
ErrorText(err) == IF err.isError THEN err.message ELSE "Failed to load photos"

\* activeFilters: {}. An unset category is "", an unset featured and unset
\* or empty tags are {}
NoFilters == [category |-> "", featured |-> {}, tags |-> {}]

\* the elements of list that pass test, in their order
RECURSIVE SelectSeq2(_, _)
SelectSeq2(list, keep) ==
    IF list = <<>> THEN <<>>
    ELSE IF Head(list) \in keep
         THEN <<Head(list)>> \o SelectSeq2(Tail(list), keep)
         ELSE SelectSeq2(Tail(list), keep)

Elements(list) == {list[i] : i \in 1..Len(list)}

\* for comparison: a getter that applies the category filter alone
Filter_CategoryOnly(list, filters) ==
    IF filters.category # ""
    THEN SelectSeq2(list, {ph \in Elements(list) : ph.category = filters.category})
    ELSE list

\* the filteredPhotos getter: the category, featured and tags filters, one
\* after the other (no search term is ever set here)
Filter(list, filters) ==
    LET byCategory ==
            IF filters.category # ""
            THEN SelectSeq2(list, {ph \in Elements(list) : ph.category = filters.category})
            ELSE list
        byFeatured ==
            IF filters.featured # {}
            THEN SelectSeq2(byCategory,
                            {ph \in Elements(byCategory) : ph.featured \in filters.featured})
            ELSE byCategory
        byTags ==
            IF filters.tags # {}
            THEN SelectSeq2(byFeatured,
                            {ph \in Elements(byFeatured) : ph.tags \cap filters.tags # {}})
            ELSE byFeatured
    IN  byTags

filteredPhotos(c) == Filter(photos[c], activeFilters[c])

\* loadPhotos up to its await
LoadPhotos(c) ==
    /\ fetching[c] < MaxLoads
    /\ loading' = [loading EXCEPT ![c] = TRUE]
    /\ storeError' = [storeError EXCEPT ![c] = NoError]
    /\ fetching' = [fetching EXCEPT ![c] = @ + 1]
    /\ UNCHANGED <<photos, selectedPhoto, selectedIndex, isLightboxOpen, activeFilters>>

\* getPhotos resolves with list: photos.value = ..., then finally
LoadPhotosResolves(c, list) ==
    /\ fetching[c] > 0
    /\ photos' = [photos EXCEPT ![c] = list]
    /\ loading' = [loading EXCEPT ![c] = FALSE]
    /\ fetching' = [fetching EXCEPT ![c] = @ - 1]
    /\ UNCHANGED <<storeError, selectedPhoto, selectedIndex, isLightboxOpen, activeFilters>>

\* getPhotos throws err: catch, then finally
LoadPhotosRejects(c, err) ==
    /\ fetching[c] > 0
    /\ storeError' = [storeError EXCEPT ![c] = ErrorText(err)]
    /\ loading' = [loading EXCEPT ![c] = FALSE]
    /\ fetching' = [fetching EXCEPT ![c] = @ - 1]
    /\ UNCHANGED <<photos, selectedPhoto, selectedIndex, isLightboxOpen, activeFilters>>

\* for comparison: a selectPhoto that keeps the index
SelectedIndexAfter_Kept(c, index) == selectedIndex[c]

SelectedIndexAfter(c, index) == index

SelectPhoto(c, photo, index) ==
    /\ selectedPhoto' = [selectedPhoto EXCEPT ![c] = photo]
    /\ selectedIndex' = [selectedIndex EXCEPT ![c] = SelectedIndexAfter(c, index)]
    /\ isLightboxOpen' = [isLightboxOpen EXCEPT ![c] = TRUE]
    /\ UNCHANGED <<photos, loading, storeError, activeFilters, fetching>>

\* for comparison: a closeLightbox that resets the index as well
IndexAfterClose_Reset(c) == 0

IndexAfterClose(c) == selectedIndex[c]

CloseLightbox(c) ==
    /\ isLightboxOpen' = [isLightboxOpen EXCEPT ![c] = FALSE]
    /\ selectedPhoto' = [selectedPhoto EXCEPT ![c] = NoPhoto]
    /\ selectedIndex' = [selectedIndex EXCEPT ![c] = IndexAfterClose(c)]
    /\ UNCHANGED <<photos, loading, storeError, activeFilters, fetching>>

\* { ...activeFilters.value, ...filters }
Merged(active, filters) ==
    [k \in DOMAIN active |-> IF k \in DOMAIN filters THEN filters[k] ELSE active[k]]

SetFilter(c, filters) ==
    /\ activeFilters' = [activeFilters EXCEPT ![c] = Merged(@, filters)]
    /\ UNCHANGED <<photos, loading, storeError, selectedPhoto, selectedIndex,
                   isLightboxOpen, fetching>>

\* for comparison: a clearFilters that clears the category alone
Cleared_CategoryOnly(active) == [active EXCEPT !.category = ""]

Cleared(active) == NoFilters

ClearFilters(c) ==
    /\ activeFilters' = [activeFilters EXCEPT ![c] = Cleared(@)]
    /\ UNCHANGED <<photos, loading, storeError, selectedPhoto, selectedIndex,
                   isLightboxOpen, fetching>>

\* Gallery.vue: which of its v-if / v-else-if / v-else blocks is rendered
Shows(c) ==
    IF loading[c] THEN "loading"
    ELSE IF storeError[c] # NoError THEN "error"
    ELSE "grid"

\* Gallery.vue: the photos of the cards it renders
Displayed(c) == IF Shows(c) = "grid" THEN filteredPhotos(c) ELSE <<>>

\* the list as initializePhotoStats reads it: a later photo of a documentId
\* overwrites an earlier one
ById(list) ==
    [id \in {list[i].documentId : i \in 1..Len(list)} |->
        list[CHOOSE i \in 1..Len(list) :
                /\ list[i].documentId = id
                /\ \A j \in (i + 1)..Len(list) : list[j].documentId # id]]

-----------------------------------------------------------------------------
(* Initial states *)

\* a photo that has been liked and viewed before, and one with the schema's
\* defaults: likeCount 0, viewCount 0
InitStore ==
    [p \in Photos |-> IF p = "p1" THEN [likeCount |-> 5, viewCount |-> 100]
                                  ELSE [likeCount |-> 0, viewCount |-> 0]]

NoStats == [p \in {} |-> [likes |-> 0, views |-> 0]]

InitServer ==
    /\ store = InitStore
    /\ store0 = store
    /\ handlers = EmptyBag
    /\ received = 0
    /\ emitted = [p \in Photos |-> [k \in Kinds |-> <<>>]]
    /\ wire = NoPackets
    /\ rooms = [q \in PhotoIds |-> {}]
    /\ joinSent = [c \in Clients |-> {}]
    /\ online = {}
    /\ inbox = [c \in Clients |-> <<>>]
    /\ audience = [p \in Photos |-> {}]

\* useRealTimeGallery() has run and the component is not mounted yet
InitClient ==
    /\ socks = [c \in Clients |-> <<>>]
    /\ cur = [c \in Clients |-> 0]
    /\ connected = [c \in Clients |-> FALSE]
    /\ error = [c \in Clients |-> NoError]
    /\ photoStats = [c \in Clients |-> NoStats]
    /\ recentActivity = [c \in Clients |-> <<>>]
    /\ clock = [c \in Clients |-> 0]
    /\ lastCall = [c \in Clients |-> NoCall]
    /\ gallery = [c \in Clients |-> "created"]

\* useGalleryStore(): the state of the store as it is created
InitGalleryStore ==
    /\ photos = [c \in Clients |-> <<>>]
    /\ loading = [c \in Clients |-> FALSE]
    /\ storeError = [c \in Clients |-> NoError]
    /\ selectedPhoto = [c \in Clients |-> NoPhoto]
    /\ selectedIndex = [c \in Clients |-> 0]
    /\ isLightboxOpen = [c \in Clients |-> FALSE]
    /\ activeFilters = [c \in Clients |-> NoFilters]
    /\ fetching = [c \in Clients |-> 0]

\* PhotoCard.vue as it is mounted
InitCard ==
    /\ imageLoaded = [p \in Photos |-> FALSE]
    /\ imageError = [p \in Photos |-> FALSE]
    /\ cardEmits = [p \in Photos |-> [click |-> 0, like |-> 0]]

\* every like counted in the store has its like record
InitLikeRecords == likeRecords = [p \in Photos |-> InitStore[p].likeCount]

Init == InitServer /\ InitClient /\ InitGalleryStore /\ InitCard /\ InitLikeRecords

-----------------------------------------------------------------------------
(* The server alone, with sockets that send it any event *)

clientSide == <<inbox, clientVars, gallery, audience, storeVars, cardVars,
                 recordVars>>

SocketConnects(c) ==
    /\ c \notin online
    /\ ServerConnect(c)
    /\ UNCHANGED clientSide

SocketDisconnects(c) ==
    /\ c \in online
    /\ ServerDisconnect(c)
    /\ UNCHANGED clientSide

JoinEvent(c, photoId) ==
    /\ c \in online
    /\ ServerJoin(c, photoId)
    /\ UNCHANGED clientSide

LikeEvent(c, photoId) ==
    /\ c \in online
    /\ ServerReceive(c, "like", photoId)
    /\ UNCHANGED clientSide

ViewEvent(c, photoId) ==
    /\ c \in online
    /\ ServerReceive(c, "view", photoId)
    /\ UNCHANGED clientSide

ServerStep(h) ==
    /\ \/ FindOne(h)
       \/ FindOneFails(h)
       \/ Update(h)
       \/ UpdateFails(h)
       \/ Emit(h)
    /\ UNCHANGED clientSide

\* the photoIds the 'photo:like' / 'photo:view' events carry: an existing photo
\* and one that does not exist
EventIds == {"p1", Missing}

NextServer ==
    \/ \E c \in Clients : SocketConnects(c)
    \/ \E c \in Clients : SocketDisconnects(c)
    \/ \E c \in Clients, p \in Photos : JoinEvent(c, p)
    \/ \E c \in Clients, p \in EventIds : LikeEvent(c, p)
    \/ \E c \in Clients, p \in EventIds : ViewEvent(c, p)
    \/ \E h \in Running : ServerStep(h)

SpecServer == Init /\ [][NextServer]_vars

-----------------------------------------------------------------------------
(* The system: Gallery.vue components, their sockets and the server *)

\* the photo of documentId p as the backend returns it
Stored(p) ==
    IF p = "p1"
    THEN [MountainView EXCEPT !.likeCount = store[p].likeCount,
                              !.viewCount = store[p].viewCount]
    ELSE [CityPortrait EXCEPT !.likeCount = store[p].likeCount,
                              !.viewCount = store[p].viewCount]

\* what loadPhotos fetches: the photos of the store with their counts
Fetched == <<Stored("p1"), Stored("p2")>>

\* the component is mounted: the composable's onMounted calls connect(), the
\* component's onMounted calls loadPhotos()
Mount(c) ==
    /\ gallery[c] = "created"
    /\ gallery' = [gallery EXCEPT ![c] = "loading"]
    /\ Connect(c)
    /\ LoadPhotos(c)
    /\ ServerIdle
    /\ UNCHANGED <<inbox, audience, cardVars,
                 recordVars>>

\* onMounted resumes after await loadPhotos(), whose fetch resolved with list:
\* initializePhotoStats(filteredPhotos.value)
GalleryLoaded(c, list) ==
    /\ gallery[c] = "loading"
    /\ gallery' = [gallery EXCEPT ![c] = "ready"]
    /\ LoadPhotosResolves(c, list)
    /\ InitializePhotoStats(c, ById(Filter(list, activeFilters[c])))
    /\ ServerIdle
    /\ UNCHANGED <<inbox, audience, cardVars,
                 recordVars>>

\* onMounted resumes after await loadPhotos(), which caught the error of its
\* fetch: initializePhotoStats(filteredPhotos.value) on the photos held before
GalleryLoadFailed(c, err) ==
    /\ gallery[c] = "loading"
    /\ gallery' = [gallery EXCEPT ![c] = "ready"]
    /\ LoadPhotosRejects(c, err)
    /\ InitializePhotoStats(c, ById(filteredPhotos(c)))
    /\ ServerIdle
    /\ UNCHANGED <<inbox, audience, cardVars,
                 recordVars>>

\* loadPhotos() has resolved with the photos of the backend
Loaded(c) == GalleryLoaded(c, Fetched)

\* the packets in flight to a client are lost with its connection, and the
\* client is no longer one that has been connected ever since
Cut(c) ==
    /\ inbox' = [inbox EXCEPT ![c] = <<>>]
    /\ audience' = [p \in Photos |-> audience[p] \ {c}]

\* the component is unmounted: onUnmounted calls disconnect()
Unmount(c) ==
    /\ gallery[c] \in {"loading", "ready"}
    /\ gallery' = [gallery EXCEPT ![c] = "unmounted"]
    /\ Disconnect(c)
    /\ IF Established(c)
       THEN ServerDisconnect(c) /\ Cut(c)
       ELSE ServerIdle /\ UNCHANGED <<inbox, audience>>
    /\ UNCHANGED <<storeVars, cardVars,
                 recordVars>>

\* the connection of socket.value is established
Connected(c) ==
    /\ OnConnect(c, cur[c])
    /\ ServerConnect(c)
    /\ UNCHANGED <<inbox, gallery, audience, storeVars, cardVars,
                 recordVars>>

\* the connection is lost; Socket.IO will try to reconnect
Dropped(c) ==
    /\ OnDisconnect(c, cur[c])
    /\ ServerDisconnect(c)
    /\ Cut(c)
    /\ UNCHANGED <<gallery, storeVars, cardVars,
                 recordVars>>

\* whether a packet handed to socket.emit reaches the server
Reaches(c) == CanEmit(c) /\ Established(c)

\* handlePhotoClick: selectPhoto, joinPhoto, viewPhoto; the server handles
\* 'join-photo' and then starts the 'photo:view' handler
HandlePhotoClick(c, photoId) ==
    /\ gallery[c] = "ready"
    /\ \E i \in 1..Len(Displayed(c)) :
            /\ Displayed(c)[i].documentId = photoId
            /\ SelectPhoto(c, Displayed(c)[i], i - 1)
    /\ lastCall' = [lastCall EXCEPT ![c] = DoCall(c, "viewPhoto", photoId)]
    /\ UNCHANGED <<socks, cur, connected, error, photoStats, recentActivity, clock>>
    /\ IF Reaches(c)
       THEN /\ received < MaxEvents
            /\ rooms' = [rooms EXCEPT ![photoId] = @ \cup {c}]
            /\ joinSent' = [joinSent EXCEPT ![c] = @ \cup {photoId}]
            /\ received' = received + 1
            /\ handlers' = handlers (+) SetToBag({NewHandler(c, "view", photoId)})
            /\ Quiet
            /\ UNCHANGED <<store, store0, emitted, online>>
       ELSE ServerIdle
    /\ UNCHANGED <<inbox, gallery, audience, cardVars,
                 recordVars>>

\* handleLike: likePhoto; the server starts the 'photo:like' handler
HandleLike(c, photoId) ==
    /\ gallery[c] = "ready"
    /\ LikePhoto(c, photoId)
    /\ IF Reaches(c)
       THEN ServerReceive(c, "like", photoId)
       ELSE ServerIdle
    /\ UNCHANGED <<inbox, gallery, audience, storeVars, cardVars,
                 recordVars>>

\* a message emitted to the socket arrives and its listener runs; there is
\* no listener for 'error'
Deliver(c) ==
    /\ inbox[c] # <<>>
    /\ Receiving(c)
    /\ inbox' = [inbox EXCEPT ![c] = Tail(@)]
    /\ LET m == Head(inbox[c])
       IN  CASE m.type = "photo:like-update" -> OnLikeUpdate(c, m.photoId, m.count)
             [] m.type = "photo:view-update" -> OnViewUpdate(c, m.photoId, m.count)
             [] OTHER -> UNCHANGED clientVars
    /\ ServerIdle
    /\ UNCHANGED <<gallery, audience, storeVars, cardVars,
                 recordVars>>

\* a step of a handler; what it emits is in flight to the clients
Serve(h) ==
    /\ \/ FindOne(h)
       \/ FindOneFails(h)
       \/ Update(h)
       \/ UpdateFails(h)
       \/ Emit(h)
    /\ inbox' = [c \in Clients |-> inbox[c] \o wire'[c]]
    /\ audience' = IF h.pc = "emit" /\ h.kind = "like"
                   THEN [audience EXCEPT ![h.photoId] = online]
                   ELSE audience
    /\ UNCHANGED <<clientVars, gallery, storeVars, cardVars,
                 recordVars>>

Next ==
    \/ \E c \in Clients : Mount(c)
    \/ \E c \in Clients : Loaded(c)
    \/ \E c \in Clients : Unmount(c)
    \/ \E c \in Clients : Connected(c)
    \/ \E c \in Clients : Dropped(c)
    \/ \E c \in Clients, p \in Photos \cap EventIds : HandlePhotoClick(c, p)
    \/ \E c \in Clients, p \in Photos \cap EventIds : HandleLike(c, p)
    \/ \E c \in Clients : Deliver(c)
    \/ \E h \in Running : Serve(h)

Spec == Init /\ [][Next]_vars

-----------------------------------------------------------------------------
(* Properties of the server, under SpecServer *)

\* the handlers of event kind for photo p that have not returned yet
InFlight(p, kind) == {h \in Running : h.photoId = p /\ h.kind = kind}

IsUpdate(m, p, kind) == m.type = UpdateEvent(kind) /\ m.photoId = p

\* socket c is sent an update of kind for photo p in the latest step
Gets(c, p, kind) == \E i \in 1..Len(wire[c]) : IsUpdate(wire[c][i], p, kind)

Gets_next(c, p, kind) == \E i \in 1..Len(wire'[c]) : IsUpdate(wire'[c][i], p, kind)

\* C1: no increment is lost. Once every like (view) handler for a photo has
\* returned, the stored likeCount (viewCount) is the initial count plus the
\* number of handlers that completed without error, each of which broadcast.
NoIncrementLost ==
    \A p \in Photos, kind \in Kinds :
        InFlight(p, kind) = {} =>
            store[p][Field(kind)] = store0[p][Field(kind)] + Len(emitted[p][kind])

\* C2: the count in every 'photo:like-update' / 'photo:view-update' message is
\* the stored count of the photo at the moment the message is emitted.
EmittedCountIsStored ==
    \A c \in Clients, p \in Photos, kind \in Kinds :
        \A i \in 1..Len(wire[c]) :
            IsUpdate(wire[c][i], p, kind) => wire[c][i].count = store[p][Field(kind)]

\* C3: a broadcast for photo p goes to every connected socket that has sent
\* 'join-photo' for p and to no other socket, the emitting one included.
BroadcastScopedByRoom ==
    [][\A p \in Photos, kind \in Kinds :
          Len(emitted'[p][kind]) > Len(emitted[p][kind]) =>
              \A c \in Clients :
                  Gets_next(c, p, kind) <=> (c \in online /\ p \in joinSent[c])]_vars

\* a like of c2, which never joined, is broadcast to c1 and not to c2
BroadcastScopedByRoom_witness ==
    /\ \E i \in 1..Len(wire["c1"]) :
            /\ wire["c1"][i].type = "photo:like-update"
            /\ wire["c1"][i].socketId = "c2"
    /\ "c2" \in online
    /\ joinSent["c2"] = {}
    /\ wire["c2"] = <<>>

\* the handler h ends in its catch block in this step
Fails(h) == FindOneFails(h) \/ UpdateFails(h)

NoBroadcast ==
    /\ emitted' = emitted
    /\ \A c \in Clients, p \in Photos, kind \in Kinds : ~Gets_next(c, p, kind)

\* C4 (as stated): when the store read or write fails in a like or a view
\* handler, 'error' is sent to the emitting socket and nothing is broadcast.
ErrorSentOnFailure ==
    [][\A h \in Running :
          Fails(h) =>
              /\ NoBroadcast
              /\ h.alive => \E i \in 1..Len(wire'[h.sock]) :
                                wire'[h.sock][i].type = "error"]_vars

\* C4 (as the code has it): when the store read or write fails, nothing is
\* broadcast; the like handler sends 'error' to the emitting socket alone and
\* the view handler sends nothing at all.
ErrorSentOnLikeFailure ==
    [][\A h \in Running :
          Fails(h) =>
              /\ NoBroadcast
              /\ store' = store
              /\ \A c \in Clients :
                    wire'[c] = IF h.kind = "like" /\ c = h.sock /\ h.alive
                               THEN <<ErrorMsg("Failed to process like")>>
                               ELSE <<>>]_vars

\* a like handler has just failed: its socket is sent the error and nobody
\* else anything, with no count broadcast so far
ErrorSentOnLikeFailure_witness ==
    /\ wire["c1"] = <<ErrorMsg("Failed to process like")>>
    /\ wire["c2"] = <<>>
    /\ "c2" \in online
    /\ \A p \in Photos, kind \in Kinds : emitted[p][kind] = <<>>

\* C6: there is no deduplication. Every 'photo:like' for an existing photo,
\* repeats from one socket included, makes the stored likeCount one greater
\* than it was.
EveryLikeCounts ==
    [][\A h \in Running :
          (h.kind = "like" /\ Update(h)) =>
              store'[h.photoId].likeCount = store[h.photoId].likeCount + 1]_vars

-----------------------------------------------------------------------------
(* Properties of the system, under Spec *)

Last(seq) == seq[Len(seq)]

\* nothing about the likes of p is under way: no handler and no message
Settled(p) ==
    /\ InFlight(p, "like") = {}
    /\ \A c \in Clients : inbox[c] = <<>>

\* C5: like counts reach all connected clients. Once the likes of a photo
\* have settled, every client that has been connected since its last like
\* broadcast, and has loaded the gallery, shows the count of that broadcast.
LikesReachAllConnected ==
    \A p \in Photos :
        (emitted[p]["like"] # <<>> /\ Settled(p)) =>
            \A c \in audience[p] :
                gallery[c] = "ready" =>
                    getRealTimeLikeCount(c, p) = Last(emitted[p]["like"])

-----------------------------------------------------------------------------
(* One composable and its sockets, with any order of calls and socket events *)

Tested == {"c1"}

composableVars == <<socks, cur, connected, error, photoStats, recentActivity, clock>>

outside == <<serverVars, inbox, gallery, audience, storeVars, cardVars,
                 recordVars>>

CallConnect(c) == Connect(c) /\ UNCHANGED outside

CallDisconnect(c) == Disconnect(c) /\ UNCHANGED outside

SocketConnect(c, k) == OnConnect(c, k) /\ UNCHANGED outside

SocketDisconnect(c, k) == OnDisconnect(c, k) /\ UNCHANGED outside

SocketConnectError(c, k, msg) == OnConnectError(c, k, msg) /\ UNCHANGED outside

CallJoinPhoto(c, photoId) == JoinPhoto(c, photoId) /\ UNCHANGED outside

CallLikePhoto(c, photoId) == LikePhoto(c, photoId) /\ UNCHANGED outside

CallViewPhoto(c, photoId) == ViewPhoto(c, photoId) /\ UNCHANGED outside

NextClient ==
    \/ \E c \in Tested : CallConnect(c)
    \/ \E c \in Tested : CallDisconnect(c)
    \/ \E c \in Tested, k \in 1..MaxSockets : SocketConnect(c, k)
    \/ \E c \in Tested, k \in 1..MaxSockets : SocketDisconnect(c, k)
    \/ \E c \in Tested, k \in 1..MaxSockets, msg \in ConnectErrors :
            SocketConnectError(c, k, msg)
    \/ \E c \in Tested, p \in PhotoIds : CallJoinPhoto(c, p)
    \/ \E c \in Tested, p \in PhotoIds : CallLikePhoto(c, p)
    \/ \E c \in Tested, p \in PhotoIds : CallViewPhoto(c, p)

SpecClient == Init /\ [][NextClient]_vars

\* C7: the client queues nothing. joinPhoto, likePhoto and viewPhoto call
\* socket.emit exactly when a socket exists and state.connected is true, and
\* a call that does not emit changes nothing of the composable's state.
EmitsOnlyWhenConnected ==
    [][\A c \in Clients, p \in PhotoIds :
          (JoinPhoto(c, p) \/ LikePhoto(c, p) \/ ViewPhoto(c, p)) =>
              /\ lastCall'[c].sent <=> (cur[c] # 0 /\ connected[c])
              /\ ~lastCall'[c].sent => UNCHANGED <<composableVars, outside>>]_vars

\* likePhoto was called with a socket that has not connected: nothing is emitted
EmitsOnlyWhenConnected_witness ==
    /\ lastCall["c1"].fn = "likePhoto"
    /\ lastCall["c1"].hadSocket
    /\ ~lastCall["c1"].wasConnected
    /\ ~lastCall["c1"].sent
    /\ socks["c1"] = <<"connecting">>

\* C10: state.connected is true, and the gallery shows 'Live', exactly when
\* the composable's current socket has an established connection.
ConnectedIffEstablished ==
    \A c \in Clients :
        /\ connected[c] <=> Established(c)
        /\ StatusText(c) = "Live" <=> Established(c)

-----------------------------------------------------------------------------
(* One connected composable, receiving any updates of the counters *)

\* the counts an update may carry
MaxCount == 2

\* the activities recorded while the counters are observed
MaxRecorded == 1

\* the lists initializePhotoStats may be given: some of the photos, with
\* counts that are missing or set
PhotoLists ==
    UNION {[S -> [likeCount : {Null, 1}, viewCount : {Null, 1}]] : S \in SUBSET Photos}

StatsConnect(c) ==
    /\ socks[c] = <<>>
    /\ Connect(c)
    /\ UNCHANGED outside

StatsInitialize(c, photoList) == InitializePhotoStats(c, photoList) /\ UNCHANGED outside

StatsLikeUpdate(c, photoId, count) ==
    /\ Receiving(c)
    /\ clock[c] < MaxRecorded
    /\ OnLikeUpdate(c, photoId, count)
    /\ UNCHANGED outside

StatsViewUpdate(c, photoId, count) ==
    /\ Receiving(c)
    /\ OnViewUpdate(c, photoId, count)
    /\ UNCHANGED outside

NextStats ==
    \/ \E c \in Tested : StatsConnect(c)
    \/ \E c \in Tested : SocketConnect(c, 1)
    \/ \E c \in Tested, photoList \in PhotoLists : StatsInitialize(c, photoList)
    \/ \E c \in Tested, p \in PhotoIds, n \in 0..MaxCount : StatsLikeUpdate(c, p, n)
    \/ \E c \in Tested, p \in PhotoIds, n \in 0..MaxCount : StatsViewUpdate(c, p, n)

SpecStats == Init /\ [][NextStats]_vars

\* stats with the field of the entry of photoId set to count, when there is
\* such an entry
WithField(stats, photoId, field, count) ==
    [q \in DOMAIN stats |->
        IF q = photoId
        THEN [likes |-> IF field = "likes" THEN count ELSE stats[q].likes,
              views |-> IF field = "views" THEN count ELSE stats[q].views]
        ELSE stats[q]]

\* C8: on a 'photo:like-update' ('photo:view-update') for photo p the client
\* sets the likes (views) of its entry for p if it holds one; no entry is
\* created, and the other entries and the other counter stay as they are.
UpdateSetsOnlyHeldEntry ==
    [][\A c \in Clients, p \in PhotoIds, n \in 0..MaxCount :
          /\ OnLikeUpdate(c, p, n) =>
                /\ photoStats'[c] = WithField(photoStats[c], p, "likes", n)
                /\ \A d \in Clients \ {c} : photoStats'[d] = photoStats[d]
          /\ OnViewUpdate(c, p, n) =>
                /\ photoStats'[c] = WithField(photoStats[c], p, "views", n)
                /\ \A d \in Clients \ {c} : photoStats'[d] = photoStats[d]]_vars

\* a like update for p1, whose entry held likes 1 and views 1, has set its
\* likes to 2; no entry for p2 has appeared
UpdateSetsOnlyHeldEntry_witness ==
    /\ DOMAIN photoStats["c1"] = {"p1"}
    /\ Len(recentActivity["c1"]) = 1
    /\ recentActivity["c1"][1].photoId = "p1"
    /\ recentActivity["c1"][1].count = 2
    /\ photoStats["c1"]["p1"] = [likes |-> 2, views |-> 1]

-----------------------------------------------------------------------------
(* One connected composable, recording more activities than it keeps *)

\* the activities recorded
MaxFeedEvents == 52

\* of which the first ones may be gallery events rather than likes
MaxGalleryEvents == 2

FeedLikeUpdate(c, photoId, count) ==
    /\ Receiving(c)
    /\ clock[c] < MaxFeedEvents
    /\ OnLikeUpdate(c, photoId, count)
    /\ UNCHANGED outside

FeedNewPhoto(c, photoId) ==
    /\ Receiving(c)
    /\ clock[c] < MaxGalleryEvents
    /\ OnNewPhoto(c, photoId)
    /\ UNCHANGED outside

FeedPhotoUpdated(c, photoId) ==
    /\ Receiving(c)
    /\ clock[c] < MaxGalleryEvents
    /\ OnPhotoUpdated(c, photoId)
    /\ UNCHANGED outside

FeedPhotoDeleted(c, photoId) ==
    /\ Receiving(c)
    /\ clock[c] < MaxGalleryEvents
    /\ OnPhotoDeleted(c, photoId)
    /\ UNCHANGED outside

NextFeed ==
    \/ \E c \in Tested : StatsConnect(c)
    \/ \E c \in Tested : SocketConnect(c, 1)
    \/ \E c \in Tested : FeedLikeUpdate(c, "p1", 1)
    \/ \E c \in Tested : FeedNewPhoto(c, "p2")
    \/ \E c \in Tested : FeedPhotoUpdated(c, "p1")
    \/ \E c \in Tested : FeedPhotoDeleted(c, "p2")

SpecFeed == Init /\ [][NextFeed]_vars

Min(a, b) == IF a < b THEN a ELSE b

\* C9: recentActivity holds at most 50 entries, the most recent ones, the
\* latest at index 0: its i-th entry is the i-th latest activity recorded.
FeedKeepsLatest ==
    \A c \in Clients :
        /\ Len(recentActivity[c]) = Min(clock[c], MaxActivities)
        /\ \A i \in 1..Len(recentActivity[c]) :
                recentActivity[c][i].timestamp = clock[c] - i + 1

\* more than 50 activities have been recorded and 50 are kept
FeedKeepsLatest_witness ==
    /\ clock["c1"] > MaxActivities
    /\ Len(recentActivity["c1"]) = MaxActivities
    /\ recentActivity["c1"][1].timestamp = clock["c1"]

-----------------------------------------------------------------------------
(* One gallery store, with any order of calls and any outcome of its fetches *)

\* the indexes selectPhoto is called with
MaxIndex == 1

notStore == <<serverVars, inbox, clientVars, gallery, audience, cardVars,
                 recordVars>>

CallLoadPhotos(c) == LoadPhotos(c) /\ UNCHANGED notStore

FetchResolves(c, list) == LoadPhotosResolves(c, list) /\ UNCHANGED notStore

FetchRejects(c, err) == LoadPhotosRejects(c, err) /\ UNCHANGED notStore

CallSelectPhoto(c, photo, index) == SelectPhoto(c, photo, index) /\ UNCHANGED notStore

CallCloseLightbox(c) == CloseLightbox(c) /\ UNCHANGED notStore

CallSetFilter(c, filters) == SetFilter(c, filters) /\ UNCHANGED notStore

CallClearFilters(c) == ClearFilters(c) /\ UNCHANGED notStore

\* the photos selectPhoto is called with
Selectable == {MountainView, CityPortrait}

\* the arguments of setFilter
FilterInputs ==
    {[category |-> x] : x \in Categories \cup {""}}
        \cup {[featured |-> {b}] : b \in BOOLEAN}
        \cup {[tags |-> t] : t \in SUBSET Tags}

NextStore ==
    \/ \E c \in Tested : CallLoadPhotos(c)
    \/ \E c \in Tested, list \in Responses : FetchResolves(c, list)
    \/ \E c \in Tested, err \in Failures : FetchRejects(c, err)
    \/ \E c \in Tested, photo \in Selectable, index \in 0..MaxIndex :
            CallSelectPhoto(c, photo, index)
    \/ \E c \in Tested : CallCloseLightbox(c)
    \/ \E c \in Tested, filters \in FilterInputs : CallSetFilter(c, filters)
    \/ \E c \in Tested : CallClearFilters(c)

SpecStore == Init /\ [][NextStore]_vars

\* C11: loadPhotos sets loading to true as soon as it is called, keeps it true
\* until its fetch settles and sets it to false once the fetch has settled:
\* loading is true exactly while a fetch of loadPhotos is under way.
LoadingWhileFetching ==
    \A c \in Clients : loading[c] <=> fetching[c] > 0

\* C12: when the fetch fails, loadPhotos sets error to 'Failed to load photos'
\* and leaves photos as it was.
FailureSetsFixedMessage ==
    [][\A c \in Clients, err \in Failures :
          LoadPhotosRejects(c, err) =>
              /\ storeError'[c] = "Failed to load photos"
              /\ photos'[c] = photos[c]]_vars

\* C13: after a successful loadPhotos, photos holds exactly the photos the
\* backend returned, in the returned order, and error is null.
SuccessSetsPhotos ==
    [][\A c \in Clients, list \in Responses :
          LoadPhotosResolves(c, list) =>
              /\ photos'[c] = list
              /\ storeError'[c] = NoError]_vars

\* photo ph passes every filter that is set
Passes(ph, filters) ==
    /\ filters.category # "" => ph.category = filters.category
    /\ filters.featured # {} => ph.featured \in filters.featured
    /\ filters.tags # {} => ph.tags \cap filters.tags # {}

\* the photos of list that satisfy test(ph, filters), in their order
Kept(list, filters, test(_, _)) ==
    SelectSeq2(list, {ph \in Elements(list) : test(ph, filters)})

OfCategory(ph, filters) == ph.category = filters.category

CloseLightboxFrame ==
    [][\A c \in Clients :
          CloseLightbox(c) =>
              /\ ~isLightboxOpen'[c]
              /\ selectedPhoto'[c] = NoPhoto
              /\ UNCHANGED <<photos, activeFilters, selectedIndex, loading, storeError,
                             fetching>>]_vars

\* the lightbox was closed after a photo at index 1 had been selected, while
\* photos were loaded and a fetch was under way
CloseLightboxFrame_witness ==
    /\ ~isLightboxOpen["c1"]
    /\ selectedPhoto["c1"] = NoPhoto
    /\ selectedIndex["c1"] = 1
    /\ photos["c1"] # <<>>
    /\ loading["c1"]

-----------------------------------------------------------------------------
(* One Gallery.vue component with its store, under SpecGallery: the fetch of
   loadPhotos may fail, and the filter bar is used *)

\* categories = computed(...): the categories of the photos held
categories(c) == {ph.category : ph \in Elements(photos[c])} \ {""}

\* the select of the filter bar changes to one of its options
HandleCategoryChange(c, selectedCategory) ==
    /\ gallery[c] \in {"loading", "ready"}
    /\ selectedCategory \in categories(c) \cup {""}
    /\ IF selectedCategory # ""
       THEN SetFilter(c, [category |-> selectedCategory])
       ELSE ClearFilters(c)
    /\ ServerIdle
    /\ UNCHANGED <<inbox, clientVars, gallery, audience, cardVars,
                 recordVars>>

\* the "Featured Only" button: setFilter({ featured: true })
FeaturedOnly(c) ==
    /\ gallery[c] \in {"loading", "ready"}
    /\ SetFilter(c, [featured |-> {TRUE}])
    /\ ServerIdle
    /\ UNCHANGED <<inbox, clientVars, gallery, audience, cardVars,
                 recordVars>>

\* the "Clear Filters" button
ClickClearFilters(c) ==
    /\ gallery[c] \in {"loading", "ready"}
    /\ ClearFilters(c)
    /\ ServerIdle
    /\ UNCHANGED <<inbox, clientVars, gallery, audience, cardVars,
                 recordVars>>

\* the "Try Again" button of the error state: loadPhotos()
TryAgain(c) ==
    /\ gallery[c] = "ready"
    /\ Shows(c) = "error"
    /\ LoadPhotos(c)
    /\ ServerIdle
    /\ UNCHANGED <<inbox, clientVars, gallery, audience, cardVars,
                 recordVars>>

\* the fetch of a loadPhotos() called by "Try Again" resolves
RetryResolves(c, list) ==
    /\ gallery[c] = "ready"
    /\ LoadPhotosResolves(c, list)
    /\ ServerIdle
    /\ UNCHANGED <<inbox, clientVars, gallery, audience, cardVars,
                 recordVars>>

\* the fetch of a loadPhotos() called by "Try Again" rejects
RetryRejects(c, err) ==
    /\ gallery[c] = "ready"
    /\ LoadPhotosRejects(c, err)
    /\ ServerIdle
    /\ UNCHANGED <<inbox, clientVars, gallery, audience, cardVars,
                 recordVars>>

NextGallery ==
    \/ \E c \in Tested : Mount(c)
    \/ \E c \in Tested, list \in Responses : GalleryLoaded(c, list)
    \/ \E c \in Tested, err \in Failures : GalleryLoadFailed(c, err)
    \/ \E c \in Tested, category \in Categories \cup {""} : HandleCategoryChange(c, category)
    \/ \E c \in Tested : FeaturedOnly(c)
    \/ \E c \in Tested : ClickClearFilters(c)
    \/ \E c \in Tested : TryAgain(c)
    \/ \E c \in Tested, list \in Responses : RetryResolves(c, list)
    \/ \E c \in Tested, err \in Failures : RetryRejects(c, err)
    \/ \E c \in Tested, p \in Photos : HandlePhotoClick(c, p)

SpecGallery == Init /\ [][NextGallery]_vars

\* C16: selectPhoto(photo, index) sets selectedPhoto to the photo and
\* selectedIndex to the index and opens the lightbox; a click on a card of the
\* gallery calls it with the clicked photo and its index in filteredPhotos.
ClickSelectsDisplayed ==
    [][\A c \in Clients :
          /\ \A photo \in Selectable \cup {CityLandscape}, index \in 0..MaxIndex :
                SelectPhoto(c, photo, index) =>
                    /\ selectedPhoto'[c] = photo
                    /\ selectedIndex'[c] = index
                    /\ isLightboxOpen'[c]
          /\ \A p \in Photos :
                HandlePhotoClick(c, p) =>
                    \E i \in 1..Len(filteredPhotos(c)) :
                        /\ filteredPhotos(c)[i].documentId = p
                        /\ selectedPhoto'[c] = filteredPhotos(c)[i]
                        /\ selectedIndex'[c] = i - 1
                        /\ isLightboxOpen'[c]]_vars

\* the portrait filter is set and the second photo held, the first one shown,
\* was clicked: it is selected with index 0
ClickSelectsDisplayed_witness ==
    /\ photos["c1"] = <<MountainView, CityPortrait>>
    /\ activeFilters["c1"].category = "portrait"
    /\ selectedPhoto["c1"] = CityPortrait
    /\ selectedIndex["c1"] = 0
    /\ isLightboxOpen["c1"]

\* C18: after mount loadPhotos is called; when its fetch succeeds the gallery
\* leaves its loading state and shows the photos, and photoStats holds for
\* every fetched photo its fetched likeCount and viewCount.
MountInitialisesStats ==
    [][\A c \in Clients, list \in Responses :
          GalleryLoaded(c, list) =>
              /\ Shows(c)' = "grid"
              /\ \A i \in 1..Len(list) :
                    /\ list[i].documentId \in DOMAIN photoStats'[c]
                    /\ photoStats'[c][list[i].documentId] =
                          [likes |-> list[i].likeCount, views |-> list[i].viewCount]]_vars

-----------------------------------------------------------------------------
(* The PhotoCard.vue components, one for each photo, under SpecCard *)

MaxClicks == 2

notCard == <<serverVars, inbox, clientVars, gallery, audience, storeVars,
            recordVars>>

\* for comparison: a skeleton shown whenever the image has not loaded
Skeleton_UntilLoaded(p) == ~imageLoaded[p]

\* v-if="!imageLoaded && !imageError": the loading skeleton is shown
Skeleton(p) == ~imageLoaded[p] /\ ~imageError[p]

\* v-if="imageError": 'Failed to load image' is shown
ErrorMessage(p) == imageError[p]

\* for comparison: an img element that is always rendered
ImgRendered_Always(p) == TRUE

\* v-if="!imageError": the img element is rendered
ImgRendered(p) == ~imageError[p]

\* 'opacity-100': imageLoaded, 'opacity-0': !imageLoaded
Opacity(p) == IF imageLoaded[p] THEN 100 ELSE 0

\* the img element fires 'load'
HandleImageLoad(p) ==
    /\ ImgRendered(p)
    /\ imageLoaded' = [imageLoaded EXCEPT ![p] = TRUE]
    /\ UNCHANGED <<imageError, cardEmits, notCard>>

\* the img element fires 'error'
HandleImageError(p) ==
    /\ ImgRendered(p)
    /\ imageError' = [imageError EXCEPT ![p] = TRUE]
    /\ UNCHANGED <<imageLoaded, cardEmits, notCard>>

\* a click on the card outside the like button: emit('click')
HandleCardClick(p) ==
    /\ cardEmits[p].click < MaxClicks
    /\ cardEmits' = [cardEmits EXCEPT ![p].click = @ + 1]
    /\ UNCHANGED <<imageLoaded, imageError, notCard>>

\* for comparison: a like button with @click, whose click bubbles to the card
ReachesCard_Bubbling == TRUE

\* @click.stop on the like button: its click does not reach the @click of
\* the card
ReachesCard == FALSE

\* a click on the like button: emit('like'), and emit('click') by the card's
\* listener if the click reaches it
HandleLikeClick(p) ==
    /\ cardEmits[p].like < MaxClicks
    /\ cardEmits' = [cardEmits EXCEPT ![p] =
            [like |-> @.like + 1,
             click |-> IF ReachesCard THEN @.click + 1 ELSE @.click]]
    /\ UNCHANGED <<imageLoaded, imageError, notCard>>

NextCard ==
    \/ \E p \in Photos : HandleImageLoad(p)
    \/ \E p \in Photos : HandleImageError(p)
    \/ \E p \in Photos : HandleCardClick(p)
    \/ \E p \in Photos : HandleLikeClick(p)

SpecCard == Init /\ [][NextCard]_vars

\* C19: the card shows the skeleton from mount until the first load or error
\* of its image and never afterwards; after a load the image is fully opaque;
\* the skeleton and the error message are never shown together.
SkeletonUntilSettled ==
    [][\A p \in Photos :
          /\ Skeleton(p)' => Skeleton(p)
          /\ (Skeleton(p) /\ ~HandleImageLoad(p) /\ ~HandleImageError(p)) => Skeleton(p)'
          /\ (HandleImageLoad(p) \/ HandleImageError(p)) => ~Skeleton(p)'
          /\ HandleImageLoad(p) => (ImgRendered(p)' /\ Opacity(p)' = 100)
          /\ (imageLoaded[p] /\ ImgRendered(p)') => Opacity(p)' = 100
          /\ ~(Skeleton(p)' /\ ErrorMessage(p)')]_vars

\* the image of one card has loaded and is shown, that of the other has
\* failed, the skeleton of neither is shown, and the first card was clicked
\* since
SkeletonUntilSettled_witness ==
    /\ imageLoaded["p1"] /\ ~imageError["p1"] /\ Opacity("p1") = 100
    /\ ~imageLoaded["p2"] /\ imageError["p2"]
    /\ ~Skeleton("p1") /\ ~Skeleton("p2")
    /\ cardEmits["p1"].click > 0

\* C20: after an error of its image the card shows 'Failed to load image' and
\* no longer renders the image, and this is permanent.
ErrorIsPermanent ==
    [][\A p \in Photos :
          /\ HandleImageError(p) => (ErrorMessage(p)' /\ ~ImgRendered(p)')
          /\ ErrorMessage(p) => (ErrorMessage(p)' /\ ~ImgRendered(p)')
          /\ ~ImgRendered(p) => UNCHANGED <<imageLoaded[p], imageError[p]>>]_vars

\* the image of a card failed before it had loaded, and the card and its like
\* button were clicked since: the error message is still there
ErrorIsPermanent_witness ==
    /\ imageError["p1"] /\ ~imageLoaded["p1"]
    /\ ErrorMessage("p1") /\ ~ImgRendered("p1")
    /\ cardEmits["p1"].click > 0
    /\ cardEmits["p1"].like > 0

\* C21: a click on the like button of a card emits exactly one 'like' event
\* and no 'click' event; a click on the card outside the like button emits
\* exactly one 'click' event and no 'like' event.
OneEventPerClick ==
    [][\A p \in Photos :
          /\ HandleLikeClick(p) =>
                /\ cardEmits'[p].like = cardEmits[p].like + 1
                /\ cardEmits'[p].click = cardEmits[p].click
          /\ HandleCardClick(p) =>
                /\ cardEmits'[p].click = cardEmits[p].click + 1
                /\ cardEmits'[p].like = cardEmits[p].like
          /\ \A q \in Photos \ {p} :
                (HandleLikeClick(p) \/ HandleCardClick(p)) => cardEmits'[q] = cardEmits[q]]_vars

\* the like button of one card was clicked once and nothing else on it, the
\* other card was clicked once outside its like button
OneEventPerClick_witness ==
    /\ cardEmits["p1"] = [click |-> 0, like |-> 1]
    /\ cardEmits["p2"] = [click |-> 1, like |-> 0]

-----------------------------------------------------------------------------
(* Order of the broadcasts, under SpecServer *)

\* C22: the like counts broadcast for one photo never go backwards: the counts
\* of the 'photo:like-update' messages emitted for a photo are non-decreasing
\* in emit order, whatever the interleaving of the 'photo:like' handlers.
LikeUpdatesNeverDecrease ==
    \A p \in Photos :
        \A i, j \in 1..Len(emitted[p]["like"]) :
            i < j => emitted[p]["like"][i] <= emitted[p]["like"][j]

-----------------------------------------------------------------------------
(* The like-record variant of the hook, under SpecLikeRecords: a 'photo:like'
   handler creates a like record, counts the records of the photo, writes the
   count to the photo and broadcasts it *)

notRecords == <<inbox, clientVars, gallery, audience, storeVars, cardVars>>

\* socket.on('photo:like') up to its first await: entityService.create is called
ReceiveLike(c, photoId) ==
    /\ received < MaxEvents
    /\ received' = received + 1
    /\ handlers' = handlers (+)
            SetToBag({[NewHandler(c, "like", photoId) EXCEPT !.pc = "create"]})
    /\ Quiet
    /\ UNCHANGED <<store, store0, emitted, rooms, joinSent, online, likeRecords>>

\* entityService.create('api::like.like', ...) resolves: the record exists
CreateLike(h) ==
    /\ h.pc = "create"
    /\ likeRecords' = [likeRecords EXCEPT ![h.photoId] = @ + 1]
    /\ handlers' = Without(h) (+) SetToBag({[h EXCEPT !.pc = "count"]})
    /\ wire' = NoPackets
    /\ UNCHANGED <<store, store0, received, emitted, rooms, joinSent, online>>

\* entityService.create rejects; no record was created
CreateLikeFails(h) ==
    /\ h.pc = "create"
    /\ Catch(h)
    /\ UNCHANGED likeRecords

\* strapi.db.query('api::like.like').count({ where: { photo: photoId } }) resolves
CountLikes(h) ==
    /\ h.pc = "count"
    /\ handlers' = Without(h) (+)
            SetToBag({[h EXCEPT !.pc = "update", !.val = likeRecords[h.photoId]]})
    /\ wire' = NoPackets
    /\ UNCHANGED <<store, store0, received, emitted, rooms, joinSent, online, likeRecords>>

\* count rejects
CountLikesFails(h) ==
    /\ h.pc = "count"
    /\ Catch(h)
    /\ UNCHANGED likeRecords

\* a step of a handler of the variant; the update of the photo and the
\* broadcast are those of the hook
RecordStep(h) ==
    /\ \/ CreateLike(h)
       \/ CreateLikeFails(h)
       \/ CountLikes(h)
       \/ CountLikesFails(h)
       \/ Update(h) /\ UNCHANGED likeRecords
       \/ UpdateFails(h) /\ UNCHANGED likeRecords
       \/ Emit(h) /\ UNCHANGED likeRecords
    /\ UNCHANGED notRecords

RecordLikeEvent(c, photoId) ==
    /\ c \in online
    /\ ReceiveLike(c, photoId)
    /\ UNCHANGED notRecords

\* every event of this specification is a 'photo:like' of an existing photo
NextLikeRecords ==
    \/ \E c \in Clients : SocketConnects(c)
    \/ \E c \in Clients, p \in Photos : JoinEvent(c, p)
    \/ \E c \in Clients, p \in Photos \cap EventIds : RecordLikeEvent(c, p)
    \/ \E h \in Running : RecordStep(h)

SpecLikeRecords == Init /\ [][NextLikeRecords]_vars

\* C24: in the like-record variant, once all the 'photo:like' handlers for a
\* photo have completed without error (each one received has broadcast), in
\* any interleaving of their create, count and update steps, the stored
\* likeCount of the photo equals the number of like records referencing it.
LikeCountIsRecordCount ==
    \A p \in Photos \cap EventIds :
        (InFlight(p, "like") = {} /\ Len(emitted[p]["like"]) = received) =>
            store[p].likeCount = likeRecords[p]

-----------------------------------------------------------------------------
(* Convergence of the clients, under Spec *)

\* every handler has returned and every broadcast has been delivered
Quiescent ==
    /\ Running = {}
    /\ \A c \in Clients : inbox[c] = <<>>

\* every event the server has received was a 'photo:view' of p whose handler
\* has broadcast, and no like of p was ever counted
OnlyViewsOf(p) ==
    /\ Len(emitted[p]["view"]) = received
    /\ emitted[p]["like"] = <<>>
    /\ store[p].likeCount = store0[p].likeCount

\* C23: clients converge. Once every 'photo:like' and 'photo:view' handler in
\* flight has completed and every broadcast has been delivered in order, a
\* connected client that joined room photo:p and holds a photoStats entry for
\* p has likes and views equal to the counts stored for p. It is stated for
\* the runs in which the client can have missed no broadcast: the only events
\* were views of p, the client's own among them, and all were broadcast.
ClientsConverge ==
    \A c \in Clients, p \in Photos :
        (/\ Quiescent
         /\ OnlyViewsOf(p)
         /\ Established(c)
         /\ c \in rooms[p]
         /\ p \in DOMAIN photoStats[c]) =>
            /\ photoStats[c][p].likes = store[p].likeCount
            /\ photoStats[c][p].views = store[p].viewCount

=============================================================================
